---- MODULE Spec2Model ----
(***************************************************************************)
(* Model of filmy-ai: the rule-based and LLM-backed instruction parsers    *)
(* (app/services/instruction_service.py), the instruction-driven clip      *)
(* editor and its status tracker (app/services/video_service.py), and the  *)
(* upload / instruction / status / streaming-status endpoints              *)
(* (app/api/routes.py).                                                    *)
(*                                                                         *)
(* Text is a sequence of one-character strings.  Replies of the hosted     *)
(* model are sequences of JSON tokens.  Times are whole seconds, but for   *)
(* the durations of text overlays, which are hundredths of a second.       *)
(***************************************************************************)
EXTENDS Integers, Sequences, FiniteSets, TLC

\* ------------------------------------------------------------------ bounds
MaxWords == 2        \* an instruction is a concatenation of at most MaxWords vocabulary chunks
MaxToks == 3         \* a reply text has at most MaxToks JSON tokens
MaxDur == 10         \* source clips last 1..MaxDur seconds
MaxClock == 2        \* the clock runs from second 0 to second MaxClock
MaxTexts == 2        \* a texts list has at most MaxTexts elements

\* ------------------------------------------------------------ text helpers
Upper == <<"A","B","C","D","E","F","G","H","I","J","K","L","M",
           "N","O","P","Q","R","S","T","U","V","W","X","Y","Z">>
LowerAlpha == <<"a","b","c","d","e","f","g","h","i","j","k","l","m",
                "n","o","p","q","r","s","t","u","v","w","x","y","z">>

\* str.lower() on one character
LowerChar(c) ==
    IF \E i \in 1..Len(Upper) : Upper[i] = c
    THEN LowerAlpha[CHOOSE i \in 1..Len(Upper) : Upper[i] = c]
    ELSE c

\* a faulty variant: the instruction is matched as typed
LowerOmitted(s) == s

\* str.lower()
Lower(s) == [i \in 1..Len(s) |-> LowerChar(s[i])]

\* the Python test `kw in s`
Contains(s, kw) ==
    \E i \in 1..(Len(s) - Len(kw) + 1) : SubSeq(s, i, i + Len(kw) - 1) = kw

\* keyword literals of _rule_based_parse
KwDenoise == <<"d","e","n","o","i","s","e">>
KwNoise == <<"n","o","i","s","e">>
KwRemoveNoise == <<"r","e","m","o","v","e"," ","n","o","i","s","e">>
KwStabil == <<"s","t","a","b","i","l">>
KwSteady == <<"s","t","e","a","d","y">>
KwBrightness == <<"b","r","i","g","h","t","n","e","s","s">>
KwColor == <<"c","o","l","o","r">>
KwContrast == <<"c","o","n","t","r","a","s","t">>
KwBright == <<"b","r","i","g","h","t">>
KwCrop == <<"c","r","o","p">>
KwResize == <<"r","e","s","i","z","e">>
KwAspect == <<"a","s","p","e","c","t">>
Kw169 == <<"1","6",":","9">>

\* an operation {"type": t, "params": p}; params is a set of <<key, value>> pairs
Op(t, p) == [type |-> t, params |-> p]

\* ------------------------------------------------ _rule_based_parse (17-37)
DenoiseMatch(inst) ==
    Contains(inst, KwDenoise) \/ Contains(inst, KwNoise) \/ Contains(inst, KwRemoveNoise)
StabilizeMatch(inst) == Contains(inst, KwStabil) \/ Contains(inst, KwSteady)
ColorMatch(inst) ==
    Contains(inst, KwBrightness) \/ Contains(inst, KwColor) \/ Contains(inst, KwContrast)
CropMatch(inst) ==
    Contains(inst, KwCrop) \/ Contains(inst, KwResize) \/ Contains(inst, KwAspect)

DenoiseOps(inst) == IF DenoiseMatch(inst) THEN <<Op("denoise", {})>> ELSE <<>>
StabilizeOps(inst) == IF StabilizeMatch(inst) THEN <<Op("stabilize", {})>> ELSE <<>>
ColorOps(inst) ==
    IF ColorMatch(inst)
    THEN <<Op("color_adjust",
              IF Contains(inst, KwBright) THEN {<<"brightness", "0.1">>} ELSE {})>>
    ELSE <<>>
CropOps(inst) ==
    IF CropMatch(inst)
    THEN IF Contains(inst, Kw169)
         THEN <<Op("crop", {<<"aspect", "16:9">>})>>
         ELSE <<Op("resize", {})>>
    ELSE <<>>

\* a faulty variant: the keyword groups are alternatives, the first match wins
RuleBasedParseFirstMatch(instruction) ==
    LET inst == Lower(instruction)
    IN  IF DenoiseMatch(inst) THEN DenoiseOps(inst)
        ELSE IF StabilizeMatch(inst) THEN StabilizeOps(inst)
        ELSE IF ColorMatch(inst) THEN ColorOps(inst)
        ELSE IF CropMatch(inst) THEN CropOps(inst)
        ELSE <<Op("upscale", {})>>

\* a faulty variant: the default operation is appended whatever matched
RuleBasedParseAlwaysDefault(instruction) ==
    LET inst == Lower(instruction)
    IN  DenoiseOps(inst) \o StabilizeOps(inst) \o ColorOps(inst) \o CropOps(inst)
          \o <<Op("upscale", {})>>

RuleBasedParse(instruction) ==
    LET inst == Lower(instruction)
        ops == DenoiseOps(inst) \o StabilizeOps(inst) \o ColorOps(inst) \o CropOps(inst)
    IN  IF ops = <<>> THEN <<Op("upscale", {})>> ELSE ops

\* ------------------------------------------------------------ JSON tokens
\* "v" a scalar, "p" prose that is not JSON, "fence" a code-fence marker
JsonTokens == {"{", "}", "[", "]", "v", "p", "fence"}
OpenOf(t) == IF t = "}" THEN "{" ELSE "["

RECURSIVE JsonScan(_, _, _)
\* json.loads accepts toks[i..] as the rest of exactly one value, given the open brackets
JsonScan(toks, i, stack) ==
    IF i > Len(toks) THEN stack = <<>>
    ELSE LET t == toks[i] IN
         IF t \in {"p", "fence"} THEN FALSE
         ELSE IF stack = <<>> /\ i > 1 THEN FALSE
         ELSE IF t \in {"{", "["} THEN JsonScan(toks, i + 1, <<t>> \o stack)
         ELSE IF t = "v" THEN JsonScan(toks, i + 1, stack)
         ELSE stack # <<>> /\ Head(stack) = OpenOf(t) /\ JsonScan(toks, i + 1, Tail(stack))

\* json.loads: the kind of value the text denotes, "error" when it raises
JsonLoads(toks) ==
    IF toks = <<>> \/ ~JsonScan(toks, 1, <<>>) THEN "error"
    ELSE IF toks[1] = "{" THEN "dict"
    ELSE IF toks[1] = "[" THEN "list"
    ELSE "scalar"

Positions(toks, t) == {i \in 1..Len(toks) : toks[i] = t}
MinOf(S) == CHOOSE x \in S : \A y \in S : x <= y
MaxOf(S) == CHOOSE x \in S : \A y \in S : x >= y

\* re.search(open .* close, text, DOTALL): leftmost, greedy; <<>> when there is no match
RegexSpan(toks, open, close) ==
    LET os == Positions(toks, open)
        cs == Positions(toks, close)
    IN  IF os # {} /\ cs # {} /\ MinOf(os) < MaxOf(cs)
        THEN SubSeq(toks, MinOf(os), MaxOf(cs))
        ELSE <<>>

\* text.replace(fence-json, "").replace(fence, "")
StripFences(toks) == SelectSeq(toks, LAMBDA t : t # "fence")

\* ------------------------------------- instruction vocabulary (inputs)
Chunks == {
    <<"n","o","i","s","e">>,
    <<"N","O","I","S","E">>,
    <<"D","e","N","o","i","s","e">>,
    <<"n","o","i">>,
    <<"s","e">>,
    <<"S","t","a","b","i","l","i","z","e">>,
    <<"s","t","e","a","d","y">>,
    <<"b","r","i","g","h","t","n","e","s","s">>,
    <<"B","R","I","G","H","T">>,
    <<"c","o","l","o","r">>,
    <<"c","o","n","t","r","a","s","t">>,
    <<"c","r","o","p">>,
    <<"R","e","s","i","z","e">>,
    <<"a","s","p","e","c","t">>,
    <<"1","6",":","9">>,
    <<"t","r","i","m"," ">>,
    <<"s","t","e","a","d","y"," ","C","o","l","o","r"," ">>,
    <<"N","o","i","s","e"," ","c","r","o","p"," ","1","6",":","9"," ">>,
    <<"m","a","k","e"," ","i","t"," ","b","l","a","c","k"," ","a","n","d"," ",
      "w","h","i","t","e"," ","a","n","d"," ","r","e","m","o","v","e"," ">> }

RECURSIVE Phrases(_)
Phrases(n) ==
    IF n = 0 THEN {<<>>}
    ELSE Phrases(n - 1) \cup {p \o c : p \in Phrases(n - 1), c \in Chunks}

Instructions == Phrases(MaxWords)

\* "make it black and white and remove noise"
BlackWhiteNoise ==
    <<"m","a","k","e"," ","i","t"," ","b","l","a","c","k"," ","a","n","d"," ",
      "w","h","i","t","e"," ","a","n","d"," ","r","e","m","o","v","e"," ",
      "n","o","i","s","e">>

RECURSIVE TokSeqs(_)
TokSeqs(n) ==
    IF n = 0 THEN {<<>>}
    ELSE TokSeqs(n - 1) \cup {p \o <<t>> : p \in TokSeqs(n - 1), t \in JsonTokens}

ReplyTexts == TokSeqs(MaxToks)

\* --------------------------------------------------- JSON values of a command
V(k, n) == [k |-> k, n |-> n]
Absent == V("absent", 0)
Null == V("null", 0)
Num(n) == V("num", n)
Bool(b) == V("bool", IF b THEN 1 ELSE 0)
Str == V("str", 0)            \* a non-empty, non-numeric string
List(n) == V("list", n)       \* a list of n elements that are not objects

\* Python truthiness
Truthy(v) ==
    CASE v.k \in {"num", "bool", "list"} -> v.n # 0
      [] v.k = "str" -> TRUE
      [] OTHER -> FALSE

\* float(v): "ok" with the number, or the exception raised
ToFloat(v) ==
    CASE v.k \in {"num", "bool"} -> [exc |-> "ok", n |-> v.n]
      [] v.k = "str" -> [exc |-> "ValueError", n |-> 0]
      [] OTHER -> [exc |-> "TypeError", n |-> 0]

Fields == {"trim_start", "trim_end", "remove_noise", "volume_boost",
           "grayscale", "speed", "texts"}
EmptyFields == [f \in Fields |-> Absent]
Mapping(f) == [mapping |-> TRUE, f |-> f]
EmptyCmd == Mapping(EmptyFields)                    \* {}
NonMapping == [mapping |-> FALSE, f |-> EmptyFields] \* a list, number, string or null

\* commands.get(key, default)
Get(cmd, key, default) == IF cmd.f[key] = Absent THEN default ELSE cmd.f[key]

\* ------------------------------------ _get_ai_instructions (video_service 52-75)
\* reply: raises = generate_content or response.text raises; toks = response.text;
\* obj = the fields of the outermost JSON object of the text
GetAiInstructions(reply) ==
    IF reply.raises THEN EmptyCmd
    ELSE LET text1 == IF Positions(reply.toks, "fence") # {}
                      THEN StripFences(reply.toks) ELSE reply.toks
             span == RegexSpan(text1, "{", "}")
             text2 == IF span # <<>> THEN span ELSE text1
             kind == JsonLoads(text2)
         IN  CASE kind = "dict" -> Mapping(reply.obj)
               [] kind = "error" -> EmptyCmd
               [] OTHER -> NonMapping

\* ------------------------------------ parse_instruction (instruction_service 40-101)
NoText == [k |-> "none", toks |-> <<>>, ops |-> <<>>]
StrText(toks, ops) == [k |-> "str", toks |-> toks, ops |-> ops]
ObjText == [k |-> "obj", toks |-> <<>>, ops |-> <<>>]   \* a truthy value that is not a string

\* lines 75-87: the text taken from the decoded reply body
ExtractText(data) ==
    LET t1 == IF data.kind = "dict"
              THEN IF data.cand.k # "none" THEN data.cand ELSE data.top
              ELSE NoText
    IN  IF t1.k = "none" THEN StrText(data.dumps, data.dumps_ops) ELSE t1

\* env: key = GEMINI_API_KEY set; requests = the module imports; net = outcome of
\* requests.post + raise_for_status; data = the reply body
ParseInstruction(instruction, env) ==
    IF ~env.key THEN RuleBasedParse(instruction)
    ELSE IF ~env.requests THEN RuleBasedParse(instruction)
    ELSE IF env.net # "ok" THEN RuleBasedParse(instruction)
    ELSE IF env.data.kind = "notjson" THEN RuleBasedParse(instruction)
    ELSE LET text == ExtractText(env.data) IN
         IF text.k = "obj" THEN RuleBasedParse(instruction)
         ELSE LET m == RegexSpan(text.toks, "[", "]")
                  ops_json == IF m # <<>> THEN m ELSE text.toks
              IN  IF JsonLoads(ops_json) = "list" THEN text.ops
                  ELSE RuleBasedParse(instruction)

\* ------------------------------------------------------------ clip editing
Runs == {"r1", "r2"}          \* invocations of edit_video_by_instruction
Ids == {"v1", "v2"}           \* os.path.basename(video_path)

\* a decoded clip: source = length of the file it was read from, off = where it
\* starts in the source, duration = its length,
\* audio = whether it has an audio track, afx / vfx = audio / video effects applied, in order
Clip(off, duration, audio) ==
    [open |-> TRUE, source |-> duration, off |-> off, duration |-> duration,
     audio |-> audio, afx |-> <<>>, vfx |-> <<>>, overlays |-> <<>>]
NoClip ==
    [open |-> FALSE, source |-> 0, off |-> 0, duration |-> 0,
     audio |-> FALSE, afx |-> <<>>, vfx |-> <<>>, overlays |-> <<>>]

\* clip.subclip(s, e) of MoviePy 1.x / clip.subclipped(s, e) of MoviePy 2.x (line 241):
\* negative times count from the end; 1.x rejects a start past the end, 2.x also
\* a start at the end and an end past the end; neither checks that start < end
Subclip(c, s, e, version) ==
    LET ts == IF s < 0 THEN c.duration + s ELSE s
        te == IF e < 0 THEN c.duration + e ELSE e
        bad == IF version = "v1" THEN ts > c.duration
               ELSE ts >= c.duration \/ te > c.duration
    IN  IF bad THEN [exc |-> "ValueError", clip |-> c]
        ELSE [exc |-> "ok",
              clip |-> [c EXCEPT !.off = c.off + ts, !.duration = te - ts]]

\* a faulty variant: trims only when both fields are given
TrimStepBothRequired(c, cmd, version) ==
    IF Truthy(Get(cmd, "trim_start", Null)) /\ Truthy(Get(cmd, "trim_end", Null))
    THEN LET s == ToFloat(Get(cmd, "trim_start", Num(0)))
             t == ToFloat(Get(cmd, "trim_end", Num(0)))
         IN  IF s.exc # "ok" \/ t.exc # "ok" THEN c
             ELSE Subclip(c, s.n, c.duration - t.n, version).clip
    ELSE c

\* lines 237-243: the trim step on a mapping
TrimStep(c, cmd, version) ==
    IF Truthy(Get(cmd, "trim_start", Null)) \/ Truthy(Get(cmd, "trim_end", Null))
    THEN LET s == ToFloat(Get(cmd, "trim_start", Num(0)))
             t == ToFloat(Get(cmd, "trim_end", Num(0)))
         IN  IF s.exc # "ok" \/ t.exc # "ok" THEN c
             ELSE Subclip(c, s.n, c.duration - t.n, version).clip
    ELSE c

\* `x != 1.0`
NotOne(v) == ~(v.k \in {"num", "bool"} /\ v.n = 1)

\* the result dictionaries of lines 298 and 302
Success(path, cmd) == [status |-> "success", output_path |-> path, operations |-> cmd]
Error(msg) == [status |-> "error", message |-> msg]
NoResult == [status |-> "none"]

\* line 282-283: edited_<timestamp>_<video_id>.mp4 in the output directory
OutputPath(ts, id) == [ts |-> ts, id |-> id]
NoPath == [ts |-> -1, id |-> ""]

VARIABLES
    moviepy,            \* which MoviePy layout the universal loader found: "v1" or "v2"
    now,                \* int(datetime.now().timestamp())
    files,              \* the files of the output directory
    processing_status,  \* VideoService.processing_status: a dict
    last_assigned,      \* history: the value last stored under each key, "never" if none
    pc,                 \* where each invocation of edit_video_by_instruction stands
    video_id,           \* its video_id
    commands,           \* its commands
    clip,               \* its clip
    output_path,        \* its output_path
    result,             \* what it returned
    status_resp,        \* the last reply of GET /status/{video_id}
    ws_pc, ws_vid, ws_sent, ws_cause,   \* the ws_progress connection
    instruction,        \* the instruction text handed to the parsers
    last_parse,         \* the parser call made: function, whether the model failed, result
    instruct_resp,      \* the reply of POST /instruct
    background_tasks,   \* tasks queued by POST /instruct
    task_outcome,       \* how the last background task ended
    temp_files,         \* the files of the upload directory
    upload_resp         \* the last upload and the reply of POST /upload

vars == <<moviepy, now, files, processing_status, last_assigned, pc, video_id, commands,
          clip, output_path, result, status_resp, ws_pc, ws_vid, ws_sent, ws_cause,
          instruction, last_parse, instruct_resp, background_tasks, task_outcome,
          temp_files, upload_resp>>

upload_vars == <<temp_files, upload_resp>>
run_vars == <<pc, video_id, commands, clip, output_path, result>>
ws_vars == <<ws_pc, ws_vid, ws_sent, ws_cause>>
parse_vars == <<instruction, last_parse, instruct_resp, background_tasks, task_outcome>>

\* a faulty variant: an identifier without an entry reads as being processed
GetStatusDefaultProcessing(id) ==
    IF id \in DOMAIN processing_status THEN processing_status[id] ELSE "processing"

\* get_status (lines 304-305)
GetStatus(id) ==
    IF id \in DOMAIN processing_status THEN processing_status[id] ELSE "unknown"

\* a faulty variant: the assignment overwrites every entry
SetStatusEveryKey(id, value) ==
    /\ processing_status' = [k \in DOMAIN processing_status \cup {id} |-> value]
    /\ last_assigned' = [last_assigned EXCEPT ![id] = value]

\* self.processing_status[id] = value
SetStatus(id, value) ==
    /\ processing_status' =
         [k \in DOMAIN processing_status \cup {id} |->
            IF k = id THEN value ELSE processing_status[k]]
    /\ last_assigned' = [last_assigned EXCEPT ![id] = value]

NoUpload == [code |-> 0]

NoParse == [fn |-> "none", failed |-> FALSE, ops |-> <<>>, cmd |-> EmptyCmd]

\* the state after construction, but for the instruction
Base ==
    /\ moviepy \in {"v1", "v2"}
    /\ now = 0
    /\ files = {}
    /\ processing_status = << >>
    /\ last_assigned = [id \in Ids |-> "never"]
    /\ pc = [r \in Runs |-> "idle"]
    /\ video_id = [r \in Runs |-> ""]
    /\ commands = [r \in Runs |-> EmptyCmd]
    /\ clip = [r \in Runs |-> NoClip]
    /\ output_path = [r \in Runs |-> NoPath]
    /\ result = [r \in Runs |-> NoResult]
    /\ status_resp = [video_id |-> "", status |-> ""]
    /\ temp_files = {}
    /\ upload_resp = NoUpload
    /\ ws_pc = "none"
    /\ ws_vid = ""
    /\ ws_sent = "none"
    /\ ws_cause = "none"
    /\ last_parse = NoParse
    /\ instruct_resp = [status |-> "none", operations |-> <<>>]
    /\ background_tasks = <<>>
    /\ task_outcome = "none"

Init == Base /\ instruction = <<>>

\* a faulty variant: the try block starts after the first use of commands
TryCoversFromNoise(step) ==
    step \in {"noise", "volume", "gray", "speed", "texts", "render", "finish"}

\* the try block of lines 233-302 covers every step from opening the clip on
TryCovers(step) ==
    step \in {"open", "trim", "noise", "volume", "gray", "speed", "texts", "render", "finish"}

\* an exception raised at the current step of r: the except clause of line 300
\* turns it into an error result; outside the try block it reaches the caller
Raise(r, exc) ==
    /\ IF TryCovers(pc[r])
       THEN /\ result' = [result EXCEPT ![r] = Error(exc)]
            /\ pc' = [pc EXCEPT ![r] = "returned"]
       ELSE /\ result' = result
            /\ pc' = [pc EXCEPT ![r] = "raised"]
    /\ UNCHANGED <<video_id, commands, clip, output_path>>

Goto(r, step) == pc' = [pc EXCEPT ![r] = step]

\* lines 228-231: entry, status := processing, commands := the model's answer
Start(r, id, reply) ==
    /\ pc[r] = "idle"
    /\ video_id' = [video_id EXCEPT ![r] = id]
    /\ SetStatus(id, "processing")
    /\ commands' = [commands EXCEPT ![r] = GetAiInstructions(reply)]
    /\ clip' = [clip EXCEPT ![r] = NoClip]
    /\ output_path' = [output_path EXCEPT ![r] = NoPath]
    /\ result' = [result EXCEPT ![r] = NoResult]
    /\ Goto(r, "open")
    /\ UNCHANGED <<upload_vars, moviepy, now, files, status_resp, ws_vars, parse_vars>>

\* line 234: VideoFileClip(video_path) on a readable file
Open(r, duration, audio) ==
    /\ pc[r] = "open"
    /\ clip' = [clip EXCEPT ![r] = Clip(0, duration, audio)]
    /\ Goto(r, "trim")
    /\ UNCHANGED <<upload_vars, moviepy, now, files, processing_status, last_assigned, video_id,
                   commands, output_path, result, status_resp, ws_vars, parse_vars>>

\* line 234: the source file is missing or unreadable
OpenFail(r) ==
    /\ pc[r] = "open"
    /\ Raise(r, "OSError")
    /\ UNCHANGED <<upload_vars, moviepy, now, files, processing_status, last_assigned,
                   status_resp, ws_vars, parse_vars>>

\* lines 237-243; commands.get of a value that is not a dict raises AttributeError
Trim(r) ==
    /\ pc[r] = "trim"
    /\ IF ~commands[r].mapping
       THEN Raise(r, "AttributeError")
       ELSE /\ clip' = [clip EXCEPT ![r] = TrimStep(clip[r], commands[r], moviepy)]
            /\ Goto(r, "noise")
            /\ UNCHANGED <<video_id, commands, output_path, result>>
    /\ UNCHANGED <<upload_vars, moviepy, now, files, processing_status, last_assigned,
                   status_resp, ws_vars, parse_vars>>

\* a faulty variant: the volume factor is applied before the noise is removed
NoiseAfterVolume(r, cleaned) ==
    /\ pc[r] = "noise"
    /\ clip' = [clip EXCEPT ![r] =
                  IF clip[r].audio
                  THEN [@ EXCEPT !.afx = Append(Append(@, "volume"), "denoise")]
                  ELSE @]
    /\ Goto(r, "gray")
    /\ UNCHANGED <<upload_vars, moviepy, now, files, processing_status, last_assigned, video_id,
                   commands, output_path, result, status_resp, ws_vars, parse_vars>>

\* lines 246-247; _remove_audio_noise (77-116) returns the cleaned audio, or the
\* audio it was given when anything inside it fails
Noise(r, cleaned) ==
    /\ pc[r] = "noise"
    /\ clip' = [clip EXCEPT ![r] =
                  IF Truthy(Get(commands[r], "remove_noise", Null)) /\ clip[r].audio /\ cleaned
                  THEN [@ EXCEPT !.afx = Append(@, "denoise")]
                  ELSE @]
    /\ Goto(r, "volume")
    /\ UNCHANGED <<upload_vars, moviepy, now, files, processing_status, last_assigned, video_id,
                   commands, output_path, result, status_resp, ws_vars, parse_vars>>

\* a faulty variant: the factor is applied whatever it is and whatever the clip has
VolumeUnconditional(r) ==
    /\ pc[r] = "volume"
    /\ clip' = [clip EXCEPT ![r].afx = Append(@, "volume")]
    /\ Goto(r, "gray")
    /\ UNCHANGED <<upload_vars, moviepy, now, files, processing_status, last_assigned, video_id,
                   commands, output_path, result, status_resp, ws_vars, parse_vars>>

\* lines 249-258, the audio clip offers multiply_volume or volumex
Volume(r) ==
    /\ pc[r] = "volume"
    /\ LET v == Get(commands[r], "volume_boost", Num(1))
           boost == ToFloat(v)
       IN  clip' = [clip EXCEPT ![r] =
                      IF NotOne(v) /\ boost.exc = "ok" /\ boost.n # 1 /\ clip[r].audio
                      THEN [@ EXCEPT !.afx = Append(@, "volume")]
                      ELSE @]
    /\ Goto(r, "gray")
    /\ UNCHANGED <<upload_vars, moviepy, now, files, processing_status, last_assigned, video_id,
                   commands, output_path, result, status_resp, ws_vars, parse_vars>>

\* lines 253-256 when the audio clip offers neither method: AttributeError
VolumeFail(r) ==
    /\ pc[r] = "volume"
    /\ LET v == Get(commands[r], "volume_boost", Num(1))
           boost == ToFloat(v)
       IN  NotOne(v) /\ boost.exc = "ok" /\ boost.n # 1 /\ clip[r].audio
    /\ Raise(r, "AttributeError")
    /\ UNCHANGED <<upload_vars, moviepy, now, files, processing_status, last_assigned,
                   status_resp, ws_vars, parse_vars>>

\* lines 261-265
Gray(r) ==
    /\ pc[r] = "gray"
    /\ clip' = [clip EXCEPT ![r] =
                  IF Truthy(Get(commands[r], "grayscale", Null))
                  THEN [@ EXCEPT !.vfx = Append(@, "gray")]
                  ELSE @]
    /\ Goto(r, "speed")
    /\ UNCHANGED <<upload_vars, moviepy, now, files, processing_status, last_assigned, video_id,
                   commands, output_path, result, status_resp, ws_vars, parse_vars>>

\* lines 267-273; vfx.speedx exists in MoviePy 1.x only and divides the duration
\* by the factor
Speed(r) ==
    /\ pc[r] = "speed"
    /\ LET v == Get(commands[r], "speed", Num(1))
           speed_val == ToFloat(v)
           applies == NotOne(v) /\ speed_val.exc = "ok" /\ speed_val.n # 1 /\ moviepy = "v1"
       IN  IF applies /\ speed_val.n = 0
           THEN Raise(r, "ZeroDivisionError")
           ELSE /\ clip' = [clip EXCEPT ![r] =
                              IF applies THEN [@ EXCEPT !.vfx = Append(@, "speed")] ELSE @]
                /\ Goto(r, "texts")
                /\ UNCHANGED <<video_id, commands, output_path, result>>
    /\ UNCHANGED <<upload_vars, moviepy, now, files, processing_status, last_assigned,
                   status_resp, ws_vars, parse_vars>>

\* ---- _apply_texts_to_clip (118-225)

\* an element of the texts list: an object with text, start and end, or something else
TextItem(text, start, end) == [dict |-> TRUE, text |-> text, start |-> start, end |-> end]
NotDictItem == [dict |-> FALSE, text |-> "", start |-> Absent, end |-> Absent]

\* a list of overlay descriptions
Overlays(items) == [k |-> "list", n |-> Len(items), items |-> items]
ItemsOf(v) == IF "items" \in DOMAIN v THEN v.items ELSE [i \in 1..v.n |-> NotDictItem]

\* t.get(key, default)
ItemGet(t, key, default) == IF t[key] = Absent THEN default ELSE t[key]

\* line 132: float(end) if end is not None else duration
EndOf(t, duration) ==
    IF ItemGet(t, "end", Null) = Null THEN [exc |-> "ok", n |-> duration]
    ELSE ToFloat(t.end)

Hundredths == 100
Larger(a, b) == IF a >= b THEN a ELSE b
Smaller(a, b) == IF a <= b THEN a ELSE b

\* line 133, in hundredths of a second: max(0.01, min(end, duration) - start)
OverlayDur(start, end, duration) ==
    Larger(1, (Smaller(end, duration) - start) * Hundredths)

\* lines 126-208: element i yields a clip; fails holds the elements for which both
\* TextClip and the PIL fallback raise
OverlayBuilt(t, i, duration, fails) ==
    /\ t.dict /\ t.text # ""
    /\ ToFloat(ItemGet(t, "start", Num(0))).exc = "ok"
    /\ EndOf(t, duration).exc = "ok"
    /\ i \notin fails

\* lines 143-144 and 173-174: the clip of element i
OverlayClip(t, i, duration) ==
    [i |-> i, text |-> t.text, start |-> ToFloat(ItemGet(t, "start", Num(0))).n,
     dur |-> OverlayDur(ToFloat(ItemGet(t, "start", Num(0))).n, EndOf(t, duration).n,
                        duration)]

\* the for loop of lines 125-211 from element i on.  bound: whether content has been
\* assigned; the handler of line 211 reads it, so an element that is not an object
\* raises UnboundLocalError out of the loop when no element before it assigned it
RECURSIVE ApplyTextsFrom(_, _, _, _, _, _)
ApplyTextsFrom(items, i, bound, text_clips, duration, fails) ==
    IF i > Len(items) THEN [exc |-> "ok", text_clips |-> text_clips]
    ELSE IF ~items[i].dict
    THEN IF bound
         THEN ApplyTextsFrom(items, i + 1, bound, text_clips, duration, fails)
         ELSE [exc |-> "UnboundLocalError", text_clips |-> text_clips]
    ELSE IF OverlayBuilt(items[i], i, duration, fails)
    THEN ApplyTextsFrom(items, i + 1, TRUE,
                        Append(text_clips, OverlayClip(items[i], i, duration)),
                        duration, fails)
    ELSE ApplyTextsFrom(items, i + 1, TRUE, text_clips, duration, fails)

\* _apply_texts_to_clip for a list
ApplyTexts(items, duration, fails) == ApplyTextsFrom(items, 1, FALSE, <<>>, duration, fails)

\* lines 276-277 with _apply_texts_to_clip: the overlays that could be built are
\* composited; a string is iterated character by character, a number cannot be
Texts(r, fails) ==
    /\ pc[r] = "texts"
    /\ LET texts == Get(commands[r], "texts", Null) IN
       IF Truthy(texts) /\ texts.k # "list"
       THEN Raise(r, IF texts.k = "str" THEN "UnboundLocalError" ELSE "TypeError")
       ELSE LET applied == ApplyTexts(ItemsOf(texts), clip[r].duration, fails) IN
            IF applied.exc # "ok"
            THEN Raise(r, applied.exc)
            ELSE /\ clip' = [clip EXCEPT ![r] =
                               IF applied.text_clips # <<>>
                               THEN [@ EXCEPT !.overlays = applied.text_clips,
                                              !.vfx = Append(@, "texts")]
                               ELSE @]
                 /\ Goto(r, "render")
                 /\ UNCHANGED <<video_id, commands, output_path, result>>
    /\ UNCHANGED <<upload_vars, moviepy, now, files, processing_status, last_assigned,
                   status_resp, ws_vars, parse_vars>>

\* lines 280-294: write_videofile wrote the output file
Render(r) ==
    /\ pc[r] = "render"
    /\ output_path' = [output_path EXCEPT ![r] = OutputPath(now, video_id[r])]
    /\ files' = files \cup {OutputPath(now, video_id[r])}
    /\ Goto(r, "finish")
    /\ UNCHANGED <<upload_vars, moviepy, now, processing_status, last_assigned, video_id, commands,
                   clip, result, status_resp, ws_vars, parse_vars>>

\* lines 280-294: makedirs or the encoder fails
RenderFail(r) ==
    /\ pc[r] = "render"
    /\ Raise(r, "IOError")
    /\ UNCHANGED <<upload_vars, moviepy, now, files, processing_status, last_assigned,
                   status_resp, ws_vars, parse_vars>>

\* lines 296-298: close, status := completed, return the success result
Finish(r) ==
    /\ pc[r] = "finish"
    /\ clip' = [clip EXCEPT ![r].open = FALSE]
    /\ SetStatus(video_id[r], "completed")
    /\ result' = [result EXCEPT ![r] = Success(output_path[r], commands[r])]
    /\ Goto(r, "returned")
    /\ UNCHANGED <<upload_vars, moviepy, now, files, video_id, commands, output_path,
                   status_resp, ws_vars, parse_vars>>

\* the caller has the result; the invocation is over
Return(r) ==
    /\ pc[r] = "returned"
    /\ Goto(r, "idle")
    /\ video_id' = [video_id EXCEPT ![r] = ""]
    /\ commands' = [commands EXCEPT ![r] = EmptyCmd]
    /\ clip' = [clip EXCEPT ![r] = NoClip]
    /\ output_path' = [output_path EXCEPT ![r] = NoPath]
    /\ result' = [result EXCEPT ![r] = NoResult]
    /\ UNCHANGED <<upload_vars, moviepy, now, files, processing_status, last_assigned,
                   status_resp, ws_vars, parse_vars>>

\* ------------------------------------------------- status endpoints (routes.py)
\* get_video_status (142-152)
GetVideoStatus(id) ==
    /\ status_resp' = [video_id |-> id, status |-> GetStatus(id)]
    /\ UNCHANGED <<upload_vars, moviepy, now, files, processing_status, last_assigned, run_vars,
                   ws_vars, parse_vars>>

\* ws_progress (192-206): accept the connection
WsAccept(id) ==
    /\ ws_pc = "none"
    /\ ws_pc' = "poll"
    /\ ws_vid' = id
    /\ UNCHANGED <<ws_sent, ws_cause>>
    /\ UNCHANGED <<upload_vars, moviepy, now, files, processing_status, last_assigned, run_vars,
                   status_resp, parse_vars>>

\* a faulty variant: the loop is left as soon as the identifier has any entry
WsPollLeavesEarly ==
    /\ ws_pc = "poll"
    /\ LET status == GetStatus(ws_vid) IN
       /\ ws_sent' = status
       /\ IF status # "unknown"
          THEN ws_pc' = "closed" /\ ws_cause' = "break"
          ELSE ws_pc' = "sleep" /\ ws_cause' = ws_cause
    /\ UNCHANGED ws_vid
    /\ UNCHANGED <<upload_vars, moviepy, now, files, processing_status, last_assigned, run_vars,
                   status_resp, parse_vars>>

\* lines 198-202: read the status, send it, leave the loop on "completed", else sleep
WsPoll ==
    /\ ws_pc = "poll"
    /\ LET status == GetStatus(ws_vid) IN
       /\ ws_sent' = status
       /\ IF status = "completed"
          THEN ws_pc' = "closed" /\ ws_cause' = "break"
          ELSE ws_pc' = "sleep" /\ ws_cause' = ws_cause
    /\ UNCHANGED ws_vid
    /\ UNCHANGED <<upload_vars, moviepy, now, files, processing_status, last_assigned, run_vars,
                   status_resp, parse_vars>>

\* lines 199, 203-206: the peer is gone, send_json raises, the handler closes
WsSendFail ==
    /\ ws_pc = "poll"
    /\ ws_pc' = "closed"
    /\ ws_cause' = "exception"
    /\ UNCHANGED <<ws_vid, ws_sent>>
    /\ UNCHANGED <<upload_vars, moviepy, now, files, processing_status, last_assigned, run_vars,
                   status_resp, parse_vars>>

\* line 202: asyncio.sleep(1.0) is over
WsWake ==
    /\ ws_pc = "sleep"
    /\ ws_pc' = "poll"
    /\ UNCHANGED <<ws_vid, ws_sent, ws_cause>>
    /\ UNCHANGED <<upload_vars, moviepy, now, files, processing_status, last_assigned, run_vars,
                   status_resp, parse_vars>>

\* ------------------------------------------------------------ parser calls
\* the list of operations a reply text denotes when it holds a list
LlmList == <<Op("grayscale", {}), Op("denoise", {})>>
OpsOf(toks) == IF RegexSpan(toks, "[", "]") = <<"[", "]">> THEN <<>> ELSE LlmList

ReplyStrings == {StrText(t, OpsOf(t)) : t \in ReplyTexts \ {<<>>}}

DictData(cand, top, dumps) ==
    [kind |-> "dict", cand |-> cand, top |-> top, dumps |-> dumps, dumps_ops |-> OpsOf(dumps)]
OtherData(dumps) ==
    [kind |-> "other", cand |-> NoText, top |-> NoText, dumps |-> dumps,
     dumps_ops |-> OpsOf(dumps)]
NotJsonData ==
    [kind |-> "notjson", cand |-> NoText, top |-> NoText, dumps |-> <<>>, dumps_ops |-> <<>>]

\* reply bodies: not JSON; {"candidates": [{"content": T}]}; {"output": T};
\* {"error": ...}; {"candidates": []}; a bare list; a bare scalar
Datas ==
    {NotJsonData}
    \cup {DictData(t, NoText, <<"{", "[", "{", "v", "}", "]", "}">>) : t \in ReplyStrings \cup {ObjText}}
    \cup {DictData(NoText, StrText(t, OpsOf(t)), <<"{", "v", "}">>) :
            t \in {<<"[", "v", "]">>, <<"{", "v", "}">>, <<"p">>}}
    \cup {DictData(NoText, NoText, <<"{", "v", "}">>),
          DictData(NoText, NoText, <<"{", "[", "]", "}">>)}
    \cup {OtherData(<<"[", "v", "]">>), OtherData(<<"v">>)}

Env(key, requests, net, data) == [key |-> key, requests |-> requests, net |-> net, data |-> data]
Envs ==
    {Env(FALSE, TRUE, "ok", NotJsonData), Env(TRUE, FALSE, "ok", NotJsonData)}
    \cup {Env(TRUE, TRUE, n, NotJsonData) : n \in {"conn_error", "timeout", "http_error"}}
    \cup {Env(TRUE, TRUE, "ok", d) : d \in Datas}

\* the endpoint was called and failed, or its reply is not JSON, or not a list
LlmFailed(env) ==
    /\ env.key /\ env.requests
    /\ \/ env.net # "ok"
       \/ env.data.kind = "notjson"
       \/ LET text == ExtractText(env.data) IN
          \/ text.k = "obj"
          \/ LET m == RegexSpan(text.toks, "[", "]") IN
             JsonLoads(IF m # <<>> THEN m ELSE text.toks) # "list"

\* command objects the hosted model may answer with
FullFields ==
    [trim_start |-> Num(2), trim_end |-> Num(1), remove_noise |-> Bool(TRUE),
     volume_boost |-> Num(2), grayscale |-> Bool(TRUE), speed |-> Num(2),
     texts |-> Overlays(<<TextItem("a", Num(1), Num(3))>>)]
OddFields ==
    [trim_start |-> Str, trim_end |-> Null, remove_noise |-> Bool(FALSE),
     volume_boost |-> Str, grayscale |-> Absent, speed |-> Num(0), texts |-> Str]
\* every transformation applies
AllFields ==
    [trim_start |-> Num(1), trim_end |-> Num(2), remove_noise |-> Bool(TRUE),
     volume_boost |-> Num(2), grayscale |-> Bool(TRUE), speed |-> Num(2),
     texts |-> Overlays(<<TextItem("a", Num(1), Num(3))>>)]
\* a volume factor of 1.0 next to noise removal
UnitFields ==
    [EmptyFields EXCEPT !.remove_noise = Bool(TRUE), !.volume_boost = Num(1)]
SysObjs == {EmptyFields, FullFields, OddFields, AllFields, UnitFields}

AiReply(raises, toks, obj) == [raises |-> raises, toks |-> toks, obj |-> obj]
AiReplies ==
    {AiReply(TRUE, <<>>, EmptyFields)}
    \cup {AiReply(FALSE, t, o) : t \in ReplyTexts, o \in {EmptyFields, FullFields}}

\* one reply of each kind for the editor: an exception, prose, a scalar, an object
\* of each content, a fenced object
SysReplies ==
    {AiReply(TRUE, <<>>, EmptyFields), AiReply(FALSE, <<"p">>, EmptyFields),
     AiReply(FALSE, <<"v">>, EmptyFields), AiReply(FALSE, <<"[", "v", "]">>, EmptyFields),
     AiReply(FALSE, <<"fence", "{", "v", "}", "fence">>, FullFields)}
    \cup {AiReply(FALSE, <<"{", "v", "}">>, o) : o \in SysObjs}

\* generate_content failed, or its text is not JSON, or not an object
AiFailed(reply) ==
    \/ reply.raises
    \/ LET text == StripFences(reply.toks)
           m == RegexSpan(text, "{", "}")
       IN  JsonLoads(IF m # <<>> THEN m ELSE text) # "dict"

\* a direct call of _rule_based_parse
CallRuleBasedParse ==
    /\ last_parse.fn = "none"
    /\ last_parse' = [fn |-> "_rule_based_parse", failed |-> FALSE,
                      ops |-> RuleBasedParse(instruction), cmd |-> EmptyCmd]
    /\ UNCHANGED <<upload_vars, moviepy, now, files, processing_status, last_assigned, run_vars,
                   status_resp, ws_vars, instruction, instruct_resp, background_tasks,
                   task_outcome>>

\* a call of parse_instruction
CallParseInstruction(env) ==
    /\ last_parse.fn = "none"
    /\ last_parse' = [fn |-> "parse_instruction", failed |-> LlmFailed(env),
                      ops |-> ParseInstruction(instruction, env), cmd |-> EmptyCmd]
    /\ UNCHANGED <<upload_vars, moviepy, now, files, processing_status, last_assigned, run_vars,
                   status_resp, ws_vars, instruction, instruct_resp, background_tasks,
                   task_outcome>>

\* a call of VideoService._get_ai_instructions
CallGetAiInstructions(reply) ==
    /\ last_parse.fn = "none"
    /\ last_parse' = [fn |-> "_get_ai_instructions", failed |-> AiFailed(reply),
                      ops |-> <<>>, cmd |-> GetAiInstructions(reply)]
    /\ UNCHANGED <<upload_vars, moviepy, now, files, processing_status, last_assigned, run_vars,
                   status_resp, ws_vars, instruction, instruct_resp, background_tasks,
                   task_outcome>>

\* instruct (routes.py 155-189): parse, queue _processor, answer "accepted"
Instruct(id, env) ==
    /\ instruct_resp.status = "none"
    /\ LET operations == ParseInstruction(instruction, env) IN
       /\ background_tasks' =
            Append(background_tasks, [video_id |-> id, operations |-> operations])
       /\ instruct_resp' = [status |-> "accepted", operations |-> operations]
    /\ UNCHANGED <<upload_vars, moviepy, now, files, processing_status, last_assigned, run_vars,
                   status_resp, ws_vars, instruction, last_parse, task_outcome>>

\* instruct._processor (162-181): every branch calls video_service.enhance_video or
\* video_service.edit_video, which VideoService does not define
Processor ==
    /\ background_tasks # <<>>
    /\ task_outcome' = IF Head(background_tasks).operations = <<>>
                       THEN "done" ELSE "AttributeError"
    /\ background_tasks' = Tail(background_tasks)
    /\ UNCHANGED <<upload_vars, moviepy, now, files, processing_status, last_assigned, run_vars,
                   status_resp, ws_vars, instruction, last_parse, instruct_resp>>

\* ------------------------------------------------------------ uploads

\* routes.py line 31
allowed_types == {"video/mp4", "video/mpeg", "video/quicktime", "video/x-msvideo"}

\* content types and file names a client may send
ContentTypes == allowed_types \cup {"image/png", "text/plain"}
NoName == <<"None">>
FileNames ==
    {<<"a", " ", "b">>, <<"a", "_", "b">>, <<"c">>, <<"d", "/", "e">>, NoName}

\* str.replace(" ", "_")
ReplaceSpaces(name) == [i \in 1..Len(name) |-> IF name[i] = " " THEN "_" ELSE name[i]]

\* save_upload lines 41-43: <temp_dir>/<timestamp>_<safe_filename>
UploadPath(ts, name) == [ts |-> ts, name |-> ReplaceSpaces(name)]
NoFile == [ts |-> -1, name |-> <<>>]

\* os.path.basename: what follows the last separator; the timestamp prefix goes
\* with the part before it
Basename(path) ==
    LET seps == {i \in 1..Len(path.name) : path.name[i] = "/"} IN
    IF seps = {} THEN path
    ELSE [ts |-> -1, name |-> SubSeq(path.name, MaxOf(seps) + 1, Len(path.name))]

\* open(file_path, "wb") finds the directory of the path
Writable(path) == \A i \in 1..Len(path.name) : path.name[i] # "/"

UploadReply(ctype, name, code, named, path) ==
    [content_type |-> ctype, filename |-> name, code |-> code,
     names_type |-> named, video_id |-> path]

\* POST /upload (routes.py 28-51) with save_upload (video_service.py 39-50).
\* io: whether the write succeeds; str_e: whether str() of the caught
\* HTTPException carries its detail (it does from Starlette 0.27 on)
UploadVideo(ctype, name, io, str_e) ==
    /\ IF ctype \notin allowed_types
       THEN \* line 33-36 raises 400 inside the try; line 50-51 catches it, raises 500
            /\ upload_resp' = UploadReply(ctype, name, 500, str_e, NoFile)
            /\ UNCHANGED temp_files
       ELSE IF name = NoName
       THEN \* line 42: None has no replace
            /\ upload_resp' = UploadReply(ctype, name, 500, FALSE, NoFile)
            /\ UNCHANGED temp_files
       ELSE IF ~Writable(UploadPath(now, name))
       THEN \* line 45: no such directory
            /\ upload_resp' = UploadReply(ctype, name, 500, FALSE, NoFile)
            /\ UNCHANGED temp_files
       ELSE IF ~io
       THEN \* line 45-47: the file is created, writing it fails
            /\ upload_resp' = UploadReply(ctype, name, 500, FALSE, NoFile)
            /\ temp_files' = temp_files \cup {UploadPath(now, name)}
       ELSE /\ temp_files' = temp_files \cup {UploadPath(now, name)}
            /\ upload_resp' =
                 UploadReply(ctype, name, 200, FALSE, Basename(UploadPath(now, name)))
    /\ UNCHANGED <<moviepy, now, files, processing_status, last_assigned, run_vars,
                   status_resp, ws_vars, parse_vars>>

\* the clock moves on: datetime.now() in lines 41 and 282
Tick ==
    /\ now < MaxClock
    /\ now' = now + 1
    /\ UNCHANGED <<upload_vars, moviepy, files, processing_status, last_assigned, run_vars,
                   status_resp, ws_vars, parse_vars>>

\* ------------------------------------------------------------ specifications
\* trim values the hosted model may answer with
TrimVals == {Absent, Null, Str} \cup {Num(n) : n \in -2..(MaxDur + 1)}
TrimReplies ==
    {AiReply(FALSE, <<"{", "v", "}">>,
             [EmptyFields EXCEPT !.trim_start = a, !.trim_end = b]) :
        a \in TrimVals, b \in TrimVals}

\* one invocation of the editor at a time, over every kind of reply and clip
Next ==
    \/ \E id \in Ids, reply \in SysReplies : Start("r1", id, reply)
    \/ \E audio \in BOOLEAN : Open("r1", MaxDur, audio)
    \/ OpenFail("r1")
    \/ Trim("r1")
    \/ \E cleaned \in BOOLEAN : Noise("r1", cleaned)
    \/ Volume("r1")
    \/ VolumeFail("r1")
    \/ Gray("r1")
    \/ Speed("r1")
    \/ \E fails \in SUBSET {1} : Texts("r1", fails)
    \/ Render("r1")
    \/ RenderFail("r1")
    \/ Finish("r1")
    \/ Return("r1")

Spec == Init /\ [][Next]_vars

\* replies for the specifications about the status tracker: an empty command
\* object and a value that is not an object
StatusReplies ==
    {AiReply(FALSE, <<"p">>, EmptyFields), AiReply(FALSE, <<"[", "v", "]">>, EmptyFields)}

\* any number of invocations, interleaved, and the status endpoint
StatusInit == Init /\ moviepy = "v1"

StatusNext ==
    \/ \E r \in Runs, id \in Ids, reply \in StatusReplies : Start(r, id, reply)
    \/ \E r \in Runs : Open(r, MaxDur, TRUE)
    \/ \E r \in Runs : OpenFail(r)
    \/ \E r \in Runs : Trim(r)
    \/ \E r \in Runs : Noise(r, TRUE)
    \/ \E r \in Runs : Volume(r)
    \/ \E r \in Runs : Gray(r)
    \/ \E r \in Runs : Speed(r)
    \/ \E r \in Runs : Texts(r, {})
    \/ \E r \in Runs : Render(r)
    \/ \E r \in Runs : RenderFail(r)
    \/ \E r \in Runs : Finish(r)
    \/ \E r \in Runs : Return(r)
    \/ \E id \in Ids : GetVideoStatus(id)

StatusSpec == StatusInit /\ [][StatusNext]_vars

\* the streaming status endpoint next to the editor
WsNext ==
    \/ \E id \in Ids, reply \in StatusReplies : Start("r1", id, reply)
    \/ Open("r1", MaxDur, TRUE)
    \/ OpenFail("r1")
    \/ Trim("r1")
    \/ Noise("r1", TRUE)
    \/ Volume("r1")
    \/ Gray("r1")
    \/ Speed("r1")
    \/ Texts("r1", {})
    \/ Render("r1")
    \/ RenderFail("r1")
    \/ Finish("r1")
    \/ Return("r1")
    \/ \E id \in Ids : WsAccept(id)
    \/ WsPoll
    \/ WsSendFail
    \/ WsWake

\* an invocation that has started runs to its end; the event loop resumes the
\* handler after each sleep; requests and connections arrive or not
WsFairness ==
    /\ WF_vars(OpenFail("r1") \/ Open("r1", MaxDur, TRUE))
    /\ WF_vars(Trim("r1")) /\ WF_vars(Noise("r1", TRUE)) /\ WF_vars(Volume("r1"))
    /\ WF_vars(Gray("r1")) /\ WF_vars(Speed("r1")) /\ WF_vars(Texts("r1", {}))
    /\ WF_vars(Render("r1") \/ RenderFail("r1"))
    /\ WF_vars(Finish("r1")) /\ WF_vars(Return("r1"))
    /\ WF_vars(WsPoll \/ WsSendFail)
    /\ WF_vars(WsWake)

WsSpec == StatusInit /\ [][WsNext]_vars /\ WsFairness

\* one invocation of the editor, over every trim_start, trim_end and duration
TrimNext ==
    \/ \E reply \in TrimReplies : Start("r1", "v1", reply)
    \/ \E duration \in 1..MaxDur : Open("r1", duration, TRUE)
    \/ Trim("r1")
    \/ Noise("r1", TRUE)
    \/ Volume("r1")
    \/ Gray("r1")
    \/ Speed("r1")
    \/ Texts("r1", {})
    \/ Render("r1")
    \/ RenderFail("r1")
    \/ Finish("r1")
    \/ Return("r1")

TrimSpec == Init /\ [][TrimNext]_vars

\* the rule-based parser, over every instruction
RuleInit == Base /\ instruction \in Instructions

RuleNext == CallRuleBasedParse

RuleSpec == RuleInit /\ [][RuleNext]_vars

\* the LLM-backed parsers and the instruction endpoint, over every reply
LlmInstructions == {<<>>, KwNoise, KwCrop \o Kw169, BlackWhiteNoise}

LlmInit == Base /\ moviepy = "v1" /\ instruction \in LlmInstructions

LlmNext ==
    \/ \E env \in Envs : CallParseInstruction(env)
    \/ \E reply \in AiReplies : CallGetAiInstructions(reply)
    \/ \E id \in Ids, env \in Envs : Instruct(id, env)
    \/ Processor

LlmSpec == LlmInit /\ [][LlmNext]_vars

\* invocations of the editor, interleaved, while the clock runs
OutputReplies == {AiReply(FALSE, <<"{", "v", "}">>, EmptyFields)}

OutputNext ==
    \/ \E r \in Runs, id \in Ids, reply \in OutputReplies : Start(r, id, reply)
    \/ \E r \in Runs : Open(r, MaxDur, TRUE)
    \/ \E r \in Runs : Trim(r)
    \/ \E r \in Runs : Noise(r, TRUE)
    \/ \E r \in Runs : Volume(r)
    \/ \E r \in Runs : Gray(r)
    \/ \E r \in Runs : Speed(r)
    \/ \E r \in Runs : Texts(r, {})
    \/ \E r \in Runs : Render(r)
    \/ \E r \in Runs : Finish(r)
    \/ \E r \in Runs : Return(r)
    \/ Tick

OutputSpec == StatusInit /\ [][OutputNext]_vars

\* elements a texts list may hold: a lasting overlay, one that ends before it
\* starts, one that ends when it starts, one that starts after the clip ends, a
\* value that is not an object, a start that is not a number, an empty text
TextItems ==
    {TextItem("a", Num(1), Num(3)), TextItem("b", Num(5), Num(3)),
     TextItem("e", Num(3), Num(3)), TextItem("c", Num(MaxDur + 2), Absent),
     NotDictItem, TextItem("d", Str, Num(3)), TextItem("", Num(1), Num(3))}
TextLists == UNION {[1..n -> TextItems] : n \in 0..MaxTexts}
TextReplies ==
    {AiReply(FALSE, <<"{", "v", "}">>, [EmptyFields EXCEPT !.texts = Overlays(l)]) :
        l \in TextLists}

\* one invocation of the editor over every texts list
TextInit == Init /\ moviepy = "v1"

TextNext ==
    \/ \E reply \in TextReplies : Start("r1", "v1", reply)
    \/ Open("r1", MaxDur, TRUE)
    \/ Trim("r1")
    \/ Noise("r1", TRUE)
    \/ Volume("r1")
    \/ Gray("r1")
    \/ Speed("r1")
    \/ \E fails \in SUBSET (1..MaxTexts) : Texts("r1", fails)
    \/ Render("r1")
    \/ Finish("r1")
    \/ Return("r1")

TextSpec == TextInit /\ [][TextNext]_vars

\* ------------------------------------------------------------ properties
UpperChar(c) ==
    IF \E i \in 1..Len(LowerAlpha) : LowerAlpha[i] = c
    THEN Upper[CHOOSE i \in 1..Len(LowerAlpha) : LowerAlpha[i] = c]
    ELSE c

\* s contains kw, each letter in either case
ContainsAnyCase(s, kw) ==
    \E i \in 1..(Len(s) - Len(kw) + 1) :
        \A j \in 1..Len(kw) : s[i + j - 1] \in {kw[j], UpperChar(kw[j])}

HasType(ops, t) == \E i \in 1..Len(ops) : ops[i].type = t

\* the keywords that select an operation ("bright" and "16:9" only refine one)
SelectingKeywords ==
    {KwDenoise, KwNoise, KwRemoveNoise, KwStabil, KwSteady, KwBrightness, KwColor,
     KwContrast, KwCrop, KwResize, KwAspect}
MatchesNoKeyword(s) == \A kw \in SelectingKeywords : ~ContainsAnyCase(s, kw)

\* C1: when the model call fails or its reply is not JSON or not the expected
\* container, the LLM-backed parser returns exactly what the rule-based parser
\* returns for the same instruction
C1_FallbackIsRuleBased ==
    (last_parse.fn \in {"parse_instruction", "_get_ai_instructions"} /\ last_parse.failed)
        => last_parse.ops = RuleBasedParse(instruction)

ResultShape(res) ==
    \/ DOMAIN res = {"status", "output_path", "operations"} /\ res.status = "success"
    \/ DOMAIN res = {"status", "message"} /\ res.status = "error"

\* C2: edit_video_by_instruction never raises to its caller; whatever the source
\* file, the reply and the encoder do, it returns a success or an error result
C2_NeverRaises ==
    \A r \in Runs :
        /\ pc[r] # "raised"
        /\ pc[r] = "returned" => ResultShape(result[r])

\* a reply that is not an object ended in an error result
C2_Witness ==
    \E r \in Runs :
        pc[r] = "returned" /\ ~commands[r].mapping /\ result[r] = Error("AttributeError")

Entered(r) == pc[r] = "idle" /\ pc'[r] # "idle"
Failed(r) == pc[r] # "returned" /\ pc'[r] = "returned" /\ result'[r].status = "error"
Completing(r) ==
    /\ pc[r] = "finish" /\ pc'[r] = "returned"
    /\ output_path[r] \in files
    /\ result'[r] = Success(output_path[r], commands[r])

\* C3: a run for identifier v stores `processing` under v as its first step, stores
\* `completed` only after the output file was rendered, stores nothing when it
\* fails, and no step changes the entry of another identifier
C3_StatusWrites ==
    [][ /\ \A r \in Runs, id \in Ids :
             Entered(r) /\ video_id'[r] = id => GetStatus(id)' = "processing"
        /\ \A r \in Runs : Failed(r) => processing_status' = processing_status
        /\ \A id \in Ids :
             GetStatus(id)' # GetStatus(id) =>
                \E r \in Runs :
                    \/ Entered(r) /\ video_id'[r] = id /\ GetStatus(id)' = "processing"
                    \/ Completing(r) /\ video_id[r] = id /\ GetStatus(id)' = "completed"
      ]_vars

\* a run has failed, its entry reads `processing`, another entry reads `completed`
C3_Witness ==
    \E r \in Runs, id \in Ids :
        /\ pc[r] = "returned" /\ result[r].status = "error"
        /\ GetStatus(video_id[r]) = "processing"
        /\ id # video_id[r] /\ GetStatus(id) = "completed"

\* C4: get_status answers `unknown` for an identifier never given a status and the
\* value last assigned otherwise, which is `processing` or `completed`; the query
\* changes no entry and no entry is ever removed
C4_GetStatus ==
    /\ [](\A id \in Ids :
            /\ GetStatus(id) = IF last_assigned[id] = "never" THEN "unknown"
                               ELSE last_assigned[id]
            /\ GetStatus(id) \in {"unknown", "processing", "completed"}
            /\ id \in DOMAIN processing_status <=> last_assigned[id] # "never")
    /\ [][ /\ DOMAIN processing_status \subseteq DOMAIN processing_status'
           /\ status_resp' # status_resp =>
                /\ processing_status' = processing_status
                /\ status_resp'.status =
                     IF last_assigned[status_resp'.video_id] = "never" THEN "unknown"
                     ELSE last_assigned[status_resp'.video_id]
         ]_vars

\* the endpoint answered `unknown` for one identifier while another is `completed`
C4_Witness ==
    /\ status_resp.status = "unknown"
    /\ \E id \in Ids : GetStatus(id) = "completed"

WsOpen == ws_pc \in {"poll", "sleep"}
WsSent == ws_pc = "poll" /\ ws_pc' # "poll" /\ ws_cause' # "exception"

\* C5 as stated: whenever the status of v becomes `completed` the stream eventually
\* sends `completed` and closes (or ends because the peer is gone)
C5_ClosesOnceCompleted ==
    (WsOpen /\ GetStatus(ws_vid) = "completed")
        ~> (ws_pc = "closed" /\ (ws_sent = "completed" \/ ws_cause = "exception"))

\* C5 amended: every poll sends the status read at that poll; the stream leaves its
\* loop only after sending `completed`; and a status that is `completed` while the
\* stream is open leads to the stream closing unless the status is changed first
C5_PollsUntilCompleted ==
    /\ [][WsSent => ws_sent' = GetStatus(ws_vid)]_vars
    /\ [][ws_pc # "closed" /\ ws_pc' = "closed" /\ ws_cause' # "exception"
            => ws_sent' = "completed" /\ GetStatus(ws_vid) = "completed"]_vars
    /\ [](ws_pc = "sleep" => ws_sent \in {"processing", "unknown"})
    /\ (WsOpen /\ GetStatus(ws_vid) = "completed")
          ~> (ws_pc = "closed" \/ GetStatus(ws_vid) # "completed")

\* the stream sent `completed` and closed after having been open
C5_Witness == ws_pc = "closed" /\ ws_cause = "break" /\ ws_sent = "completed"

\* C6: the instruction endpoint answers with the result of the edit pipeline,
\* success or error; "make it black and white and remove noise" gives success with
\* operations for grayscale and noise removal
C6_InstructReturnsEditResult ==
    instruct_resp.status # "none" =>
        /\ instruct_resp.status \in {"success", "error"}
        /\ instruction = BlackWhiteNoise =>
             /\ instruct_resp.status = "success"
             /\ HasType(instruct_resp.operations, "grayscale")
             /\ HasType(instruct_resp.operations, "denoise")

\* C7: an instruction containing "denoise" or "noise" in any letter case gets an
\* operation of type denoise from the rule-based parser, whatever else it contains
C7_NoiseGivesDenoise ==
    (/\ last_parse.fn = "_rule_based_parse"
     /\ ContainsAnyCase(instruction, KwDenoise) \/ ContainsAnyCase(instruction, KwNoise))
        => HasType(last_parse.ops, "denoise")

\* an upper-case NOISE next to another keyword
C7_Witness ==
    /\ last_parse.fn = "_rule_based_parse"
    /\ Contains(instruction, <<"N","O","I","S","E">>)
    /\ HasType(last_parse.ops, "denoise")
    /\ Len(last_parse.ops) >= 2

\* C8: an instruction matching no keyword gets exactly one operation, upscale with
\* empty params, and upscale is never returned together with another operation
C8_DefaultUpscale ==
    last_parse.fn = "_rule_based_parse" =>
        /\ MatchesNoKeyword(instruction) => last_parse.ops = <<Op("upscale", {})>>
        /\ HasType(last_parse.ops, "upscale") =>
             MatchesNoKeyword(instruction) /\ Len(last_parse.ops) = 1

\* a non-empty instruction without a selecting keyword
C8_Witness ==
    /\ last_parse.fn = "_rule_based_parse"
    /\ Contains(instruction, Kw169)
    /\ last_parse.ops = <<Op("upscale", {})>>

Trimmed(r) == pc[r] = "noise" /\ commands[r].mapping
Seconds(v) == IF v = Absent THEN 0 ELSE v.n
InRange(v) == v = Absent \/ (v.k = "num" /\ v.n >= 0)

\* C9: with 0 <= s, 0 <= e and s + e < D the trim step yields a clip of D - s - e
\* seconds, also when one field is missing or 0
C9_TrimDuration ==
    \A r \in Runs :
        LET s == commands[r].f.trim_start
            e == commands[r].f.trim_end
        IN  (/\ Trimmed(r) /\ InRange(s) /\ InRange(e)
             /\ Seconds(s) + Seconds(e) < clip[r].source)
                => /\ clip[r].duration = clip[r].source - Seconds(s) - Seconds(e)
                   /\ clip[r].off = Seconds(s)

\* 10 seconds, trim_start 2, trim_end 1: 7 seconds
C9_Witness ==
    /\ Trimmed("r1") /\ clip["r1"].source = 10
    /\ commands["r1"].f.trim_start = Num(2) /\ commands["r1"].f.trim_end = Num(1)
    /\ clip["r1"].duration = 7

Clamp(x, lo, hi) == IF x < lo THEN lo ELSE IF x > hi THEN hi ELSE x
IsNumber(v) == v = Absent \/ v.k = "num"

\* C10: the trim interval [trim_start, duration - trim_end] is clamped to
\* [0, duration]; an empty or inverted interval, or a value that is not a number,
\* leaves the clip untrimmed
C10_TrimClamped ==
    \A r \in Runs :
        Trimmed(r) =>
            LET s == commands[r].f.trim_start
                e == commands[r].f.trim_end
                D == clip[r].source
                a == Clamp(Seconds(s), 0, D)
                b == Clamp(D - Seconds(e), 0, D)
            IN  IF IsNumber(s) /\ IsNumber(e) /\ a < b
                THEN clip[r].off = a /\ clip[r].duration = b - a
                ELSE clip[r].off = 0 /\ clip[r].duration = D

AnyOf(s, kws) == \E kw \in kws : ContainsAnyCase(s, kw)
TypesOf(ops) == [i \in 1..Len(ops) |-> ops[i].type]

\* the operation types the matching groups stand for, in the order of the groups
GroupTypes(s) ==
    (IF AnyOf(s, {KwDenoise, KwNoise}) THEN <<"denoise">> ELSE <<>>)
    \o (IF AnyOf(s, {KwStabil, KwSteady}) THEN <<"stabilize">> ELSE <<>>)
    \o (IF AnyOf(s, {KwBrightness, KwColor, KwContrast}) THEN <<"color_adjust">> ELSE <<>>)
    \o (IF AnyOf(s, {KwCrop, KwResize, KwAspect})
        THEN IF Contains(s, Kw169) THEN <<"crop">> ELSE <<"resize">>
        ELSE <<>>)

\* C18: every keyword group that matches appends exactly one operation, in the order
\* denoise, stabilize, color adjust, crop/resize, whatever the other groups do; the
\* last group gives crop with aspect 16:9 when "16:9" occurs and resize otherwise;
\* the list is never empty
C18_GroupsIndependent ==
    last_parse.fn = "_rule_based_parse" =>
        /\ last_parse.ops # <<>>
        /\ GroupTypes(instruction) # <<>> => TypesOf(last_parse.ops) = GroupTypes(instruction)
        /\ \A i \in 1..Len(last_parse.ops) :
             /\ last_parse.ops[i].type = "crop" =>
                  last_parse.ops[i].params = {<<"aspect", "16:9">>}
             /\ last_parse.ops[i].type \in {"denoise", "stabilize", "resize"} =>
                  last_parse.ops[i].params = {}

\* all four groups matched at once
C18_Witness ==
    /\ last_parse.fn = "_rule_based_parse"
    /\ TypesOf(last_parse.ops) = <<"denoise", "stabilize", "color_adjust", "crop">>

\* uploads of every type and name
UploadNext ==
    \E ctype \in ContentTypes, name \in FileNames, io \in BOOLEAN, str_e \in BOOLEAN :
        UploadVideo(ctype, name, io, str_e)

UploadSpec == Init /\ [][UploadNext]_vars

\* C19: an upload of a type outside the four allowed ones is answered with HTTP 400
\* naming the type, nothing is saved and no identifier is returned; an upload of an
\* allowed type that is written is answered with the base name of the saved file
C19_UploadTypeChecked ==
    [][\A ctype \in ContentTypes, name \in FileNames, io \in BOOLEAN, str_e \in BOOLEAN :
         UploadVideo(ctype, name, io, str_e) =>
           /\ ctype \notin allowed_types =>
                /\ upload_resp'.code = 400
                /\ upload_resp'.names_type
                /\ upload_resp'.video_id = NoFile
                /\ temp_files' = temp_files
           /\ ctype \in allowed_types /\ upload_resp'.code = 200 =>
                /\ UploadPath(now, name) \in temp_files'
                /\ upload_resp'.video_id = Basename(UploadPath(now, name))]_vars

TextsOf(r) == ItemsOf(Get(commands[r], "texts", Null))
Indices(items) == [i \in 1..Len(items) |-> i]
OverlayIndices(c) == [k \in 1..Len(c.overlays) |-> c.overlays[k].i]

\* the overlay is an object with numbers for times
WellFormed(t, duration) ==
    /\ t.dict
    /\ ToFloat(ItemGet(t, "start", Num(0))).exc = "ok"
    /\ EndOf(t, duration).exc = "ok"

\* its start lies before its end, the end clamped to the clip
Lasting(t, duration) ==
    ToFloat(ItemGet(t, "start", Num(0))).n < Smaller(EndOf(t, duration).n, duration)

\* C11: in a list of well-formed overlays, one whose start is not before its clamped
\* end is left out of the composition, the others that could be built are in it, in
\* list order, and the step does not fail
C11_EmptySpanSkipped ==
    [][\A fails \in SUBSET (1..MaxTexts) :
         (/\ Texts("r1", fails)
          /\ \A i \in 1..Len(TextsOf("r1")) : WellFormed(TextsOf("r1")[i], clip["r1"].duration))
         => /\ pc'["r1"] = "render"
            /\ OverlayIndices(clip'["r1"]) =
                 SelectSeq(Indices(TextsOf("r1")),
                           LAMBDA i : /\ OverlayBuilt(TextsOf("r1")[i], i,
                                                      clip["r1"].duration, fails)
                                      /\ Lasting(TextsOf("r1")[i], clip["r1"].duration))]_vars

\* C17: an element of the list that cannot be built is dropped and nothing else: the
\* step does not fail, the composition holds every element that could be built, in
\* list order, and the clip is unchanged when none could
C17_OverlayFailureIsLocal ==
    [][\A fails \in SUBSET (1..MaxTexts) :
         (Texts("r1", fails) /\ Get(commands["r1"], "texts", Null).k = "list")
         => /\ pc'["r1"] = "render"
            /\ OverlayIndices(clip'["r1"]) =
                 SelectSeq(Indices(TextsOf("r1")),
                           LAMBDA i : OverlayBuilt(TextsOf("r1")[i], i,
                                                   clip["r1"].duration, fails))
            /\ OverlayIndices(clip'["r1"]) = <<>> => clip'["r1"] = clip["r1"]]_vars

\* the command asks for a volume factor of 1.0, or for none
UnitVolume(r) == Get(commands[r], "volume_boost", Num(1)) = Num(1)

\* C12: when the volume factor is 1.0 or absent, or the clip has no audio track, the
\* volume step is skipped: it does not fail and hands on the clip it received, audio
\* included
C12_VolumeSkipped ==
    [][\A r \in Runs :
         (pc[r] = "volume" /\ pc'[r] # "volume" /\ (UnitVolume(r) \/ ~clip[r].audio))
         => pc'[r] = "gray" /\ clip'[r] = clip[r]]_vars

\* a factor of 1.0 was given for a clip whose audio had been cleaned: the cleaned
\* audio went on as it was
C12_Witness ==
    /\ pc["r1"] = "gray"
    /\ commands["r1"].mapping /\ commands["r1"].f.volume_boost = Num(1)
    /\ clip["r1"].audio /\ clip["r1"].afx = <<"denoise">>

\* the order of the pipeline
StepOrder ==
    <<"open", "trim", "noise", "volume", "gray", "speed", "texts", "render", "finish">>
StepNo(step) == CHOOSE i \in 1..Len(StepOrder) : StepOrder[i] = step
InPipeline(step) == \E i \in 1..Len(StepOrder) : StepOrder[i] = step
IsPrefix(a, b) == Len(a) <= Len(b) /\ SubSeq(b, 1, Len(a)) = a
RECURSIVE IsSubSeq(_, _)
IsSubSeq(a, b) ==
    IF a = <<>> THEN TRUE
    ELSE IF b = <<>> THEN FALSE
    ELSE IF Head(a) = Head(b) THEN IsSubSeq(Tail(a), Tail(b))
    ELSE IsSubSeq(a, Tail(b))

C14_ClipClosedOnReturn ==
    \A r \in Runs : pc[r] = "returned" => ~clip[r].open

Running(r) == InPipeline(pc[r])

\* C15: no two edits of one identifier are in progress at once, and the entry of an
\* identifier does not read `completed` while an edit of it is in progress
C15_OnePipelinePerId ==
    /\ \A r1, r2 \in Runs :
         r1 # r2 /\ Running(r1) /\ Running(r2) => video_id[r1] # video_id[r2]
    /\ \A r \in Runs : Running(r) => GetStatus(video_id[r]) # "completed"

\* C16: a run renders to a path that no run rendered to before, so no output file
\* is overwritten
C16_DistinctOutputPaths ==
    [][\A r \in Runs :
         pc[r] = "render" /\ pc'[r] = "finish" => output_path'[r] \notin files]_vars

====
